---- MODULE Spec2Model ----
(***************************************************************************)
(* Model of the agentic iterative-search controller, src/agent/agent.py    *)
(* (class Agent), together with the response schemas of                    *)
(* src/core/schemas.py that Agent.predict instantiates.                    *)
(*                                                                         *)
(* Conventions                                                             *)
(*  - relevance scores and thresholds are fixed-point numbers in tenths    *)
(*    (0.7 is 7); an average is kept exact as the pair num/den and every   *)
(*    comparison with it is done by cross-multiplication;                  *)
(*  - an absent Optional number is Absent, an absent Optional object Null; *)
(*  - time is in whole seconds since start_time (start_time is 0);         *)
(*  - the Search Service and the LLM Service are the environment: each     *)
(*    call returns one of a small set of replies, or raises, and lets the  *)
(*    clock advance.                                                       *)
(***************************************************************************)
EXTENDS Integers, Sequences, FiniteSets, TLC

(***************************************************************************)
(* Bounds of the model.                                                    *)
(***************************************************************************)
\* AgentConfig.max_iterations of a heuristic-only session is drawn from
\* 1..MaxIterationsBound
MaxIterationsBound == 3

(***************************************************************************)
(* Optional values.                                                        *)
(***************************************************************************)
Absent == -1
Null == [null |-> TRUE]
\* an absent Optional string (None is told apart from the empty string)
NoText == "None"

\* Python truthiness of an Optional number: None and 0 / 0.0 are falsy
Truthy(x) == x # Absent /\ x # 0

Min(a, b) == IF a <= b THEN a ELSE b
Max(a, b) == IF a >= b THEN a ELSE b

(***************************************************************************)
(* Chunks.                                                                 *)
(***************************************************************************)
Chunk(id, rerank, retrieval) ==
    [chunk_id |-> id, reranker_relevance_score |-> rerank,
     retrieval_relevance_score |-> retrieval]

\* the key of _calculate_chunk_stats and _get_best_chunks:
\*   chunk.reranker_relevance_score or chunk.retrieval_relevance_score or 0.0
Score(c) ==
    IF Truthy(c.reranker_relevance_score) THEN c.reranker_relevance_score
    ELSE IF Truthy(c.retrieval_relevance_score) THEN c.retrieval_relevance_score
    ELSE 0

RECURSIVE SumScores(_)
SumScores(chunks) ==
    IF chunks = << >> THEN 0
    ELSE Score(Head(chunks)) + SumScores(Tail(chunks))

RECURSIVE MaxScoreOf(_)
MaxScoreOf(chunks) ==
    IF Len(chunks) = 1 THEN Score(chunks[1])
    ELSE Max(Score(Head(chunks)), MaxScoreOf(Tail(chunks)))

RECURSIVE MinScoreOf(_)
MinScoreOf(chunks) ==
    IF Len(chunks) = 1 THEN Score(chunks[1])
    ELSE Min(Score(Head(chunks)), MinScoreOf(Tail(chunks)))

\* exact rationals for averages
Rat(n, d) == [num |-> n, den |-> d]
RatGeq(r, x) == r.num >= x * r.den
RatLt(r, x) == r.num < x * r.den
RatEq(r, x) == r.num = x * r.den

\* Agent._calculate_chunk_stats
CalculateChunkStats(chunks, relevance_threshold) ==
    IF chunks = << >>
    THEN [count |-> 0, relevant_count |-> 0, avg_score |-> Rat(0, 1),
          max_score |-> 0, min_score |-> 0]
    ELSE [count |-> Len(chunks),
          relevant_count |->
              Cardinality({i \in 1..Len(chunks) :
                              Score(chunks[i]) >= relevance_threshold}),
          avg_score |-> Rat(SumScores(chunks), Len(chunks)),
          max_score |-> MaxScoreOf(chunks),
          min_score |-> MinScoreOf(chunks)]

(***************************************************************************)
(* Search configuration and the adjustments applied to it.                 *)
(***************************************************************************)
RetrieverConfig(size, threshold, bm25_weight) ==
    [size |-> size, threshold |-> threshold, bm25_weight |-> bm25_weight]

RerankerConfig(enabled, top_k, threshold) ==
    [enabled |-> enabled, top_k |-> top_k, threshold |-> threshold]

SearchConfig(retriever, reranker, filtering) ==
    [retriever |-> retriever, reranker |-> reranker, filtering |-> filtering]

\* Agent._get_default_search_config (qa is disabled and plays no part)
GetDefaultSearchConfig ==
    SearchConfig(RetrieverConfig(10, 3, 3), RerankerConfig(TRUE, 5, 4), Null)

SearchAdjustments(size, threshold, bm25_weight, top_k, rerank_threshold) ==
    [retriever_size |-> size, retriever_threshold |-> threshold,
     bm25_weight |-> bm25_weight, reranker_top_k |-> top_k,
     reranker_threshold |-> rerank_threshold]

Override(current, delta) == IF delta # Absent THEN delta ELSE current

\* Agent._apply_search_adjustments; a section that was None is rebuilt from
\* the field defaults of RetrieverConfig / RerankerConfig
ApplySearchAdjustments(cfg, adj) ==
    IF adj = Null THEN cfg
    ELSE LET r0 == IF cfg.retriever = Null
                   THEN RetrieverConfig(10, 0, 0) ELSE cfg.retriever
             k0 == IF cfg.reranker = Null
                   THEN RerankerConfig(TRUE, 3, 5) ELSE cfg.reranker
         IN  [cfg EXCEPT
                !.retriever =
                    RetrieverConfig(Override(r0.size, adj.retriever_size),
                                    Override(r0.threshold, adj.retriever_threshold),
                                    Override(r0.bm25_weight, adj.bm25_weight)),
                !.reranker =
                    RerankerConfig(k0.enabled,
                                   Override(k0.top_k, adj.reranker_top_k),
                                   Override(k0.threshold, adj.reranker_threshold))]

\* FilterAdjustments; a list that is None acts like the empty list in
\* _apply_filter_adjustments and is written << >>
FilterAdjustments(languages, include_filepaths, exclude_filepaths) ==
    [languages |-> languages, include_filepaths |-> include_filepaths,
     exclude_filepaths |-> exclude_filepaths]

\* Agent._apply_filter_adjustments
ApplyFilterAdjustments(cfg, adj) ==
    IF adj = Null THEN cfg
    ELSE LET by_language ==
                 IF adj.languages # << >>
                 THEN << [name |-> "language", operator |-> "in",
                          value |-> adj.languages] >>
                 ELSE << >>
             included ==
                 [i \in 1..Len(adj.include_filepaths) |->
                     [name |-> "filepath", operator |-> "wildcard",
                      value |-> adj.include_filepaths[i]]]
             excluded ==
                 [i \in 1..Len(adj.exclude_filepaths) |->
                     [operator |-> "and",
                      values |-> << [name |-> "filepath",
                                     operator |-> "wildcard",
                                     value |-> adj.exclude_filepaths[i]] >>]]
             conditions == by_language \o included \o excluded
         IN  IF conditions # << >>
             THEN [cfg EXCEPT !.filtering =
                      [enabled |-> TRUE,
                       filter |-> IF Len(conditions) = 1 THEN conditions[1]
                                  ELSE [operator |-> "and",
                                        values |-> conditions]]]
             ELSE cfg

\* chunk metadata the retriever filters on
FilePaths == {"src/a.py", "tests/t.py"}
Languages == {"python", "go"}

\* {"key": key, "match": {"value": val}}: the store matches the value of the
\* key against val as it is given
Matches(value, filepath) == value = filepath

\* Retriever._convert_to_qdrant_filter read as a predicate on the metadata
\* of a chunk: an "and" group is a must over its clauses, an "or" group a
\* should, a condition a match on its key
RECURSIVE Admits(_, _)
Admits(node, metadata) ==
    IF "values" \in DOMAIN node
    THEN IF node.operator = "and"
         THEN \A i \in 1..Len(node.values) : Admits(node.values[i], metadata)
         ELSE \E i \in 1..Len(node.values) : Admits(node.values[i], metadata)
    ELSE IF node.operator = "in"
         THEN \E i \in 1..Len(node.value) : node.value[i] = metadata.language
         ELSE Matches(node.value, metadata.filepath)

(***************************************************************************)
(* The Result Analyzer: heuristic strategy.                                *)
(***************************************************************************)
AgentAction(action_type, confidence, reasoning, refined_query, search_adj) ==
    [action_type |-> action_type, confidence |-> confidence,
     reasoning |-> reasoning, refined_query |-> refined_query,
     search_adjustments |-> search_adj, filter_adjustments |-> Null,
     focus_areas |-> Null]

\* "x or d" on an Optional number
OrDefault(x, d) == IF Truthy(x) THEN x ELSE d

\* the widening without the cap on the retrieval size
ExpandAdjustmentsUncapped(retriever) ==
    SearchAdjustments(OrDefault(retriever.size, 10) + 10,
                      Max(1, OrDefault(retriever.threshold, 3) - 1),
                      Absent, Absent, Absent)

\* the relative widening of the expand_search branch (agent.py 440-443)
ExpandAdjustments(retriever) ==
    SearchAdjustments(Min(30, OrDefault(retriever.size, 10) + 10),
                      Max(1, OrDefault(retriever.threshold, 3) - 1),
                      Absent, Absent, Absent)

\* the stop_success test with exclusive comparisons
StopSuccessReachedStrict(stats, cfg) ==
    /\ stats.relevant_count > cfg.min_relevant_chunks
    /\ stats.avg_score.num > cfg.confidence_threshold * stats.avg_score.den

\* agent.py 405-406
StopSuccessReached(stats, cfg) ==
    /\ stats.relevant_count >= cfg.min_relevant_chunks
    /\ RatGeq(stats.avg_score, cfg.confidence_threshold)

\* the refine_query test asking for more than five chunks
RefineIndicatedAboveFive(stats) ==
    stats.count > 5 /\ RatLt(stats.avg_score, 3)

\* agent.py 427
RefineIndicated(stats) ==
    stats.count >= 5 /\ RatLt(stats.avg_score, 3)

\* the branches with the stop_success test ahead of the limits
HeuristicBranchSuccessFirst(n, now, chunks, cfg) ==
    LET stats == CalculateChunkStats(chunks, cfg.relevance_score_threshold)
        remaining_time == cfg.max_time_seconds - now
        iteration == n + 1
    IN  IF StopSuccessReached(stats, cfg) THEN "success"
        ELSE IF iteration >= cfg.max_iterations \/ remaining_time < 5
             THEN "limit"
        ELSE IF stats.count = 0 THEN "no_chunks"
        ELSE IF stats.relevant_count < cfg.min_relevant_chunks
             THEN IF RefineIndicated(stats) THEN "refine" ELSE "expand"
        ELSE IF RatGeq(stats.avg_score, 5) THEN "acceptable"
        ELSE "diminishing"

\* the branch of Agent._heuristic_analysis that is taken; n is
\* len(state.iterations), now the elapsed time read by time.time()
HeuristicBranch(n, now, chunks, cfg) ==
    LET stats == CalculateChunkStats(chunks, cfg.relevance_score_threshold)
        remaining_time == cfg.max_time_seconds - now
        iteration == n + 1
    IN  IF iteration >= cfg.max_iterations \/ remaining_time < 5 THEN "limit"
        ELSE IF StopSuccessReached(stats, cfg) THEN "success"
        ELSE IF stats.count = 0 THEN "no_chunks"
        ELSE IF stats.relevant_count < cfg.min_relevant_chunks
             THEN IF RefineIndicated(stats) THEN "refine" ELSE "expand"
        ELSE IF RatGeq(stats.avg_score, 5) THEN "acceptable"
        ELSE "diminishing"

\* the refine_query action as it would be with a query of the heuristic's own
RefineActionWithQuery(stats) ==
    AgentAction("refine_query", stats.avg_score, "refine", "refined", Null)

\* the refine_query action of Agent._heuristic_analysis: no refined_query is
\* given (agent.py 428-433)
RefineAction(stats) ==
    AgentAction("refine_query", stats.avg_score, "refine", NoText, Null)

\* Agent._heuristic_analysis; the retriever section exists whenever chunks
\* came back (see SearchReturns)
HeuristicAnalysis(n, search_config, now, chunks, cfg) ==
    LET stats == CalculateChunkStats(chunks, cfg.relevance_score_threshold)
        branch == HeuristicBranch(n, now, chunks, cfg)
    IN  CASE branch = "limit" ->
               AgentAction("stop_limit", stats.avg_score, branch, NoText, Null)
          [] branch = "success" ->
               AgentAction("stop_success", stats.avg_score, branch, NoText, Null)
          [] branch = "no_chunks" ->
               AgentAction("expand_search", Rat(0, 1), branch, NoText,
                           SearchAdjustments(20, 1, 5, Absent, Absent))
          [] branch = "refine" -> RefineAction(stats)
          [] branch = "expand" ->
               AgentAction("expand_search", stats.avg_score, branch, NoText,
                           ExpandAdjustments(search_config.retriever))
          [] branch = "acceptable" ->
               AgentAction("stop_success", stats.avg_score, branch, NoText, Null)
          [] OTHER ->
               AgentAction("stop_limit", stats.avg_score, branch, NoText, Null)

(***************************************************************************)
(* Accumulated evidence.                                                   *)
(***************************************************************************)
\* _add_unique_chunks as it would be if a later sighting replaced the entry
RECURSIVE AddUniqueChunksLastWins(_, _, _)
AddUniqueChunksLastWins(all, seen, new_chunks) ==
    IF new_chunks = << >> THEN [all_chunks |-> all, seen_chunk_ids |-> seen]
    ELSE LET chunk == Head(new_chunks)
         IN  IF chunk.chunk_id \notin seen
             THEN AddUniqueChunksLastWins(Append(all, chunk),
                                          seen \cup {chunk.chunk_id},
                                          Tail(new_chunks))
             ELSE AddUniqueChunksLastWins(
                      [i \in 1..Len(all) |->
                          IF all[i].chunk_id = chunk.chunk_id
                          THEN chunk ELSE all[i]],
                      seen, Tail(new_chunks))

\* Agent._add_unique_chunks: the pair (all_chunks, seen_chunk_ids) after the
\* loop over new_chunks
RECURSIVE AddUniqueChunks(_, _, _)
AddUniqueChunks(all, seen, new_chunks) ==
    IF new_chunks = << >> THEN [all_chunks |-> all, seen_chunk_ids |-> seen]
    ELSE LET chunk == Head(new_chunks)
         IN  IF chunk.chunk_id \notin seen
             THEN AddUniqueChunks(Append(all, chunk),
                                  seen \cup {chunk.chunk_id}, Tail(new_chunks))
             ELSE AddUniqueChunks(all, seen, Tail(new_chunks))

\* sorted(..., key=score, reverse=True) is stable: a chunk goes behind every
\* chunk already placed whose key is greater or equal
RECURSIVE InsertDescending(_, _)
InsertDescending(sorted, c) ==
    IF sorted = << >> THEN << c >>
    ELSE IF Score(Head(sorted)) >= Score(c)
         THEN << Head(sorted) >> \o InsertDescending(Tail(sorted), c)
         ELSE << c >> \o sorted

RECURSIVE SortDescending(_)
SortDescending(chunks) ==
    IF chunks = << >> THEN << >>
    ELSE InsertDescending(SortDescending(SubSeq(chunks, 1, Len(chunks) - 1)),
                          chunks[Len(chunks)])

\* _get_best_chunks without reverse=True
GetBestChunksAscending(all, top_k) ==
    LET descending == SortDescending(all)
        sorted_chunks == [i \in 1..Len(descending) |->
                             descending[Len(descending) + 1 - i]]
    IN  SubSeq(sorted_chunks, 1, Min(top_k, Len(sorted_chunks)))

\* Agent._get_best_chunks
GetBestChunks(all, top_k) ==
    LET sorted_chunks == SortDescending(all)
    IN  SubSeq(sorted_chunks, 1, Min(top_k, Len(sorted_chunks)))

(***************************************************************************)
(* The Result Analyzer: LLM strategy.                                      *)
(***************************************************************************)
\* dict.get(key, default) on a parsed JSON object
Get(d, key, default) == IF key \in DOMAIN d THEN d[key] ELSE default

\* Agent._call_llm with parse_json=True, for a reply that did not raise:
\* text that is not valid JSON becomes {"error": ..., "raw_content": ...}
CallLLM(reply) ==
    IF reply.valid_json THEN reply.json
    ELSE [error |-> "JSONDecodeError", raw_content |-> "text"]

\* SearchAdjustments(**{k: v for k, v in d.items() if v is not None})
SearchAdjustmentsFrom(d) ==
    SearchAdjustments(Get(d, "retriever_size", Absent),
                      Get(d, "retriever_threshold", Absent),
                      Get(d, "bm25_weight", Absent),
                      Get(d, "reranker_top_k", Absent),
                      Get(d, "reranker_threshold", Absent))

\* FilterAdjustments(**{k: v for k, v in d.items() if v is not None})
FilterAdjustmentsFrom(d) ==
    FilterAdjustments(Get(d, "languages", << >>),
                      Get(d, "include_filepaths", << >>),
                      Get(d, "exclude_filepaths", << >>))

\* the AgentAction assembled from a parsed reply (agent.py 358-380)
ActionFromResult(result, stats) ==
    LET sa == Get(result, "search_adjustments", Null)
        search_adj == IF sa = Null \/ DOMAIN sa = {} THEN Null
                      ELSE SearchAdjustmentsFrom(sa)
        fa == Get(result, "filter_adjustments", Null)
        filter_adj == IF fa = Null \/ DOMAIN fa = {} THEN Null
                      ELSE FilterAdjustmentsFrom(fa)
    IN  [AgentAction(Get(result, "action_type", "stop_limit"),
                     Get(result, "confidence", stats.avg_score),
                     Get(result, "reasoning", "LLM analysis"),
                     Get(result, "refined_query", NoText),
                     search_adj)
         EXCEPT !.filter_adjustments = filter_adj]

\* _analyze_with_llm without the test for an "error" field
AnalyzeWithLLMIgnoringError(n, search_config, now, chunks, cfg, reply) ==
    LET stats == CalculateChunkStats(chunks, cfg.relevance_score_threshold)
    IN  IF reply.raises
        THEN HeuristicAnalysis(n, search_config, now, chunks, cfg)
        ELSE ActionFromResult(CallLLM(reply), stats)

\* Agent._analyze_with_llm; the heuristic fallback reads the clock after the
\* LLM call came back
AnalyzeWithLLM(n, search_config, now, chunks, cfg, reply) ==
    LET stats == CalculateChunkStats(chunks, cfg.relevance_score_threshold)
    IN  IF reply.raises
        THEN HeuristicAnalysis(n, search_config, now, chunks, cfg)
        ELSE IF "error" \in DOMAIN CallLLM(reply)
             THEN HeuristicAnalysis(n, search_config, now, chunks, cfg)
             ELSE ActionFromResult(CallLLM(reply), stats)

(***************************************************************************)
(* Response records of src/core/schemas.py.                                *)
(***************************************************************************)
\* MetaResponse.status: Literal["error", "done", "timeout"]
MetaStatuses == {"error", "done", "timeout"}

\* QueryResponse.status
ResponseStatuses == {"preprocessor_filtering", "postprocessor_filtering",
                     "no_relevance_sources", "llm_rag", "no_llm"}

\* the llm_usage of a response of the searcher
LLMUsageObject == [prompt_tokens |-> 1, completion_tokens |-> 1]

\* pydantic validation of MetaResponse(...) and QueryResponse(...):
\* llm_usage is a required LLMUsageObject, None is rejected
ValidResponse(meta_status, status, llm_usage) ==
    /\ meta_status \in MetaStatuses
    /\ status \in ResponseStatuses
    /\ llm_usage # Null

QueryResponse(meta_status, status, answer, sources, llm_usage) ==
    [meta |-> [status |-> meta_status], status |-> status, answer |-> answer,
     sources |-> sources, llm_usage |-> llm_usage]

\* the texts an answer can be: kind, the number N of a count message, the
\* sources a listing is made of
Answer(kind, n, sources) == [kind |-> kind, n |-> n, sources |-> sources]

NoAnswer == Answer("none", 0, << >>)
\* "Не удалось найти релевантные фрагменты кода ..." (agent.py 686)
NotFoundMessage == Answer("not_found", 0, << >>)
\* "Найдено N релевантных фрагментов кода." (agent.py 684)
CountMessage(n) == Answer("count_message", n, << >>)
\* the message of _build_error_response
ErrorMessage == Answer("error_message", 0, << >>)
\* Agent._format_sources_for_answer: one section per chunk, in order
FormatSourcesForAnswer(sources) == Answer("formatted_sources", 0, sources)
\* the completion of the LLM Service
LLMContent == Answer("llm_content", 0, << >>)

(***************************************************************************)
(* Inputs: requests, agent configurations, replies of the collaborators.   *)
(***************************************************************************)
Message(role, content) == [role |-> role, content |-> content]

Requests ==
    { << >>,
      << Message("user", "") >>,
      << Message("assistant", "a") >>,
      << Message("user", "q"), Message("user", "") >>,
      << Message("user", "q") >>,
      << Message("user", "q0"), Message("assistant", "a"),
         Message("user", "q"), Message("assistant", "a") >> }

\* the scan of predict (agent.py 564-569): content of the last user message
RECURSIVE LastUserContent(_)
LastUserContent(messages) ==
    IF messages = << >> THEN ""
    ELSE IF messages[Len(messages)].role = "user"
         THEN messages[Len(messages)].content
         ELSE LastUserContent(SubSeq(messages, 1, Len(messages) - 1))

LLMConfig == [model_name |-> "openai/gpt-oss-120b"]

InitialSearchConfigs ==
    { Null,
      SearchConfig(RetrieverConfig(25, 2, 0), Null, Null),
      SearchConfig(RetrieverConfig(40, 0, 3), RerankerConfig(TRUE, 5, 4), Null),
      SearchConfig(Null, Null, Null) }

\* an AgentConfig: three relevant chunks of relevance at least 0.5 are asked
\* for, within 120 seconds
AgentConfig(m, confidence, adj, gen, llm, isc) ==
    [max_iterations |-> m, max_time_seconds |-> 120,
     confidence_threshold |-> confidence, min_relevant_chunks |-> 3,
     relevance_score_threshold |-> 5,
     enable_query_refinement |-> TRUE, enable_filter_adjustment |-> TRUE,
     enable_retriever_adjustment |-> adj, generate_final_answer |-> gen,
     llm_config |-> llm, initial_search_config |-> isc]

\* heuristic-only sessions: the reference confidence 0.7 with every
\* combination of the other settings, and a confidence of 0.4
HeuristicConfigs ==
    { AgentConfig(m, 7, adj, gen, Null, isc) :
        m \in 1..MaxIterationsBound, adj \in BOOLEAN, gen \in BOOLEAN,
        isc \in InitialSearchConfigs }
    \cup { AgentConfig(m, 4, TRUE, FALSE, Null, Null) :
             m \in 1..MaxIterationsBound }

\* a session in which no refinement and no adjustment is permitted
LockedConfig ==
    [AgentConfig(2, 7, FALSE, FALSE, LLMConfig, Null)
        EXCEPT !.enable_query_refinement = FALSE,
               !.enable_filter_adjustment = FALSE]

\* a session whose time is up after one slow call
HurriedConfig ==
    [AgentConfig(2, 7, TRUE, FALSE, LLMConfig, Null)
        EXCEPT !.max_time_seconds = 118]

\* sessions with an LLM configuration run one or two rounds
LLMSessionConfigs ==
    { AgentConfig(1, 7, TRUE, gen, LLMConfig, Null) : gen \in BOOLEAN }
    \cup { AgentConfig(2, 7, TRUE, TRUE, LLMConfig, Null), LockedConfig,
           HurriedConfig }

AgentConfigs == HeuristicConfigs \cup LLMSessionConfigs

\* rankings of the Search Service
RankingA ==
    << Chunk(1, 9, 4), Chunk(2, 8, Absent), Chunk(3, Absent, 6),
       Chunk(4, 4, 9), Chunk(5, Absent, 3), Chunk(6, 2, Absent) >>
RankingB ==
    << Chunk(1, 7, Absent), Chunk(2, Absent, 7), Chunk(3, 7, 2),
       Chunk(7, 0, 9), Chunk(8, Absent, Absent), Chunk(9, 0, 0) >>
RankingC ==
    << Chunk(10, 2, Absent), Chunk(11, 2, Absent), Chunk(12, Absent, 2),
       Chunk(13, 2, 8), Chunk(14, 2, Absent), Chunk(15, 8, Absent) >>
RankingD ==
    << Chunk(4, 5, Absent), Chunk(5, Absent, 5), Chunk(4, 1, Absent),
       Chunk(6, 5, 1) >>

Top(ranking, n) == SubSeq(ranking, 1, n)

\* what one search call may return: nothing, or the top of a ranking
SearchReplies ==
    { << >>,
      RankingA,
      Top(RankingB, 3), RankingB,
      Top(RankingC, 3), Top(RankingC, 5), RankingC,
      RankingD }

\* time that passes during one call of a collaborator, in seconds
Delays == {0, 118}

JsonReply(json) == [raises |-> FALSE, valid_json |-> TRUE, json |-> json]

LLMFailures ==
    { [raises |-> TRUE],
      [raises |-> FALSE, valid_json |-> FALSE],
      JsonReply([error |-> "rate limit", action_type |-> "stop_success"]) }

LLMActions ==
    { JsonReply([action_type |-> "stop_success", confidence |-> Rat(9, 1)]),
      JsonReply([action_type |-> "expand_search",
                 search_adjustments |-> [retriever_size |-> 15,
                                         reranker_top_k |-> 8]]),
      JsonReply([action_type |-> "refine_query", refined_query |-> "q2"]),
      JsonReply(<< >>) }

\* actions that carry payloads of other kinds of action as well
LLMPayloadActions ==
    { JsonReply([action_type |-> "adjust_filters",
                 search_adjustments |-> [retriever_size |-> 15],
                 filter_adjustments |-> [languages |-> << "python" >>]]),
      JsonReply([action_type |-> "combined_action",
                 refined_query |-> "q3",
                 search_adjustments |-> [retriever_threshold |-> 2],
                 filter_adjustments |->
                     [include_filepaths |-> << "src/*" >>,
                      exclude_filepaths |-> << "tests/t.py" >>]]),
      JsonReply([action_type |-> "refine_query",
                 refined_query |-> "",
                 search_adjustments |-> [retriever_size |-> 15],
                 filter_adjustments |-> [languages |-> << "go" >>]]),
      JsonReply([action_type |-> "narrow_search",
                 refined_query |-> "q3",
                 filter_adjustments |-> [languages |-> << "go" >>]]) }

\* actions at the edges of the adjustments: exclude patterns only; deltas
\* outside the ranges of a threshold and of a top-k with a filter adjustment
\* that names nothing
LLMEdgeActions ==
    { JsonReply([action_type |-> "adjust_filters",
                 filter_adjustments |->
                     [exclude_filepaths |-> << "tests/t.py" >>]]),
      JsonReply([action_type |-> "combined_action",
                 search_adjustments |-> [retriever_threshold |-> 15,
                                         reranker_top_k |-> -2],
                 filter_adjustments |-> [languages |-> << >>]]) }

LLMReplies ==
    LLMFailures \cup LLMActions \cup LLMPayloadActions \cup LLMEdgeActions

\* time that passes during an analysis call: a call that fails may have
\* taken long
LLMDelays(reply) == IF reply \in LLMFailures THEN Delays ELSE {0}

(***************************************************************************)
(* The Agent Controller: one session of Agent.predict.                     *)
(***************************************************************************)
VARIABLES
    pc,             \* position of predict: idle, loop_top, search, analyze,
                    \* finish, synthesize, done
    request,        \* request.query.messages
    config,         \* the AgentConfig
    state,          \* the AgentState, Null before it is created
    now,            \* time.time() - start_time
    iteration,      \* the loop variable of predict
    chunks,         \* chunks returned in the current round
    last_response,  \* last response of the searcher, Null if none
    final_chunks, status, answer,   \* locals of predict after the loop
    outcome,        \* running, returned, raised
    response,       \* the QueryResponse handed to the caller
    sent,           \* query and configuration of the search call in flight
    returned,       \* history: per round, the chunks the search returned
    analysed,       \* history: per round, the time the analyzer decided at,
                    \* the reply of the LLM (Null without an LLM) and the
                    \* accumulated evidence the round ended with
    first_sight,    \* history: per identifier, the chunk first returned
    resighted,      \* history: a known identifier came back changed
    search_calls,   \* history: number of search calls issued
    synthesis,      \* the final-answer call (its arguments, whether it
                    \* raised), Null if none was made
    failed          \* history: the rounds whose search call raised

\* the LLM client cache of the Agent instance and the LLM calls in flight
VARIABLES
    llm_client,     \* self._llm_client, Null before the first call
    llm_config,     \* self._llm_config, Null before the first call
    llm_calls,      \* number of _call_llm invocations so far
    in_flight       \* per session: the _call_llm awaiting chat_completion

session_vars == << pc, request, config, state, now, iteration, chunks,
                   last_response, final_chunks, status, answer, outcome,
                   response, sent, returned, analysed, first_sight, resighted,
                   search_calls, synthesis, failed >>

cache_vars == << llm_client, llm_config, llm_calls, in_flight >>

vars == << session_vars, cache_vars >>

\* sessions that share the Agent instance, LLM calls they issue
MaxSessions == 2
MaxCalls == 4
Sessions == 1..MaxSessions

\* LLMConfig values of the sessions (LLMConfig.model_name)
SessionLLMConfigs ==
    { LLMConfig, [model_name |-> "mistral-large-latest"] }

\* LLMClient(llm_config): the client object, known by the configuration it
\* was constructed from and by the call that constructed it
LLMClient(cfg, serial) == [llm_config |-> cfg, serial |-> serial]

\* _get_llm_client with the test "self._llm_client is None" only
GetLLMClientBuiltOnce(self, requested) ==
    IF self.llm_client = Null
    THEN [llm_client |-> LLMClient(requested, self.llm_calls + 1),
          llm_config |-> requested, llm_calls |-> self.llm_calls + 1]
    ELSE [self EXCEPT !.llm_calls = @ + 1]

\* Agent._get_llm_client as called by _call_llm: the fields of the Agent
\* after the call; the client returned is the field llm_client
GetLLMClient(self, requested) ==
    IF self.llm_client = Null \/ self.llm_config # requested
    THEN [llm_client |-> LLMClient(requested, self.llm_calls + 1),
          llm_config |-> requested, llm_calls |-> self.llm_calls + 1]
    ELSE [self EXCEPT !.llm_calls = @ + 1]

\* _call_llm up to its await (agent.py 84): the cache after the call
UseLLMClient(requested) ==
    LET self == GetLLMClient([llm_client |-> llm_client,
                              llm_config |-> llm_config,
                              llm_calls |-> llm_calls], requested)
    IN  /\ llm_client' = self.llm_client
        /\ llm_config' = self.llm_config
        /\ llm_calls' = self.llm_calls

\* top_k of the call _get_best_chunks(state, top_k=10)
TopK == 10

AgentState(query, search_config) ==
    [current_query |-> query, original_query |-> query,
     search_config |-> search_config, all_chunks |-> << >>,
     seen_chunk_ids |-> {}, iterations |-> << >>]

IterationResultDefaultSnapshot(it, st, found, stats, act) ==
    [iteration |-> it, query_used |-> st.current_query,
     chunks_found |-> Len(found),
     relevant_chunks_count |-> stats.relevant_count,
     avg_relevance_score |-> stats.avg_score,
     max_relevance_score |-> stats.max_score,
     action |-> act, search_config_snapshot |-> GetDefaultSearchConfig]

IterationResult(it, st, found, stats, act) ==
    [iteration |-> it, query_used |-> st.current_query,
     chunks_found |-> Len(found),
     relevant_chunks_count |-> stats.relevant_count,
     avg_relevance_score |-> stats.avg_score,
     max_relevance_score |-> stats.max_score,
     action |-> act, search_config_snapshot |-> st.search_config]

\* sessions with an LLM configuration are given the requests of at most two
\* messages
Init ==
    /\ pc = "idle"
    /\ request \in Requests
    /\ config \in AgentConfigs
    /\ config.llm_config # Null => Len(request) <= 2
    /\ state = Null
    /\ now = 0
    /\ iteration = 0
    /\ chunks = << >>
    /\ last_response = Null
    /\ final_chunks = << >>
    /\ status = "none"
    /\ answer = NoAnswer
    /\ outcome = "running"
    /\ response = Null
    /\ sent = Null
    /\ returned = << >>
    /\ analysed = << >>
    /\ first_sight = {}
    /\ resighted = FALSE
    /\ search_calls = 0
    /\ synthesis = Null
    /\ failed = {}
    /\ llm_client = Null
    /\ llm_config = Null
    /\ llm_calls = 0
    /\ in_flight = [s \in Sessions |-> Null]

\* building a response ends the session: the record is returned if it passes
\* validation, otherwise the ValidationError leaves predict
Respond(meta_status, st, ans, sources, llm_usage) ==
    /\ pc' = "done"
    /\ IF ValidResponse(meta_status, st, llm_usage)
       THEN /\ outcome' = "returned"
            /\ response' = QueryResponse(meta_status, st, ans, sources, llm_usage)
       ELSE /\ outcome' = "raised"
            /\ response' = Null

\* predict up to the loop (agent.py 555-585); an empty query goes to
\* _build_error_response
Predict ==
    /\ pc = "idle"
    /\ LET current_query == LastUserContent(request)
       IN  IF current_query = ""
           THEN /\ Respond("error", "no_relevance_sources", ErrorMessage,
                           << >>, Null)
                /\ UNCHANGED << state, iteration >>
           ELSE /\ state' = AgentState(current_query,
                                IF config.initial_search_config # Null
                                THEN config.initial_search_config
                                ELSE GetDefaultSearchConfig)
                /\ iteration' = 1
                /\ pc' = "loop_top"
                /\ UNCHANGED << outcome, response >>
    /\ UNCHANGED << request, config, now, chunks, last_response, final_chunks,
                    status, answer, sent, returned, analysed, first_sight,
                    resighted, search_calls, synthesis, failed >>
    /\ UNCHANGED cache_vars

\* elapsed >= config.max_time_seconds at the top of a round
TimeLimitReachedStrictly(elapsed, cfg) == elapsed > cfg.max_time_seconds

TimeLimitReached(elapsed, cfg) == elapsed >= cfg.max_time_seconds

\* top of the for loop (agent.py 587-611): leave the loop when the range is
\* exhausted or the time is up, otherwise issue the search call
LoopTop ==
    /\ pc = "loop_top"
    /\ IF iteration > config.max_iterations \/ TimeLimitReached(now, config)
       THEN /\ pc' = "finish"
            /\ UNCHANGED << sent, search_calls >>
       ELSE /\ pc' = "search"
            /\ sent' = [query |-> state.current_query,
                        search_config |-> state.search_config]
            /\ search_calls' = search_calls + 1
    /\ UNCHANGED << request, config, state, now, iteration, chunks,
                    last_response, final_chunks, status, answer, outcome,
                    response, returned, analysed, first_sight, resighted,
                    synthesis, failed >>
    /\ UNCHANGED cache_vars

\* history of first sightings, kept independently of _add_unique_chunks
RECURSIVE FirstSightings(_, _)
FirstSightings(known, reply) ==
    IF reply = << >> THEN known
    ELSE LET c == Head(reply)
         IN  FirstSightings(IF \E k \in known : k.chunk_id = c.chunk_id
                            THEN known ELSE known \cup {c},
                            Tail(reply))

\* the search call returns (agent.py 608-616); a configuration without a
\* retriever section retrieves nothing (retriever.py 42-43)
SearchReturns(reply, d) ==
    /\ pc = "search"
    /\ state.search_config.retriever = Null => reply = << >>
    /\ now' = now + d
    /\ chunks' = reply
    /\ last_response' = [llm_usage |-> LLMUsageObject]
    /\ LET merged == AddUniqueChunks(state.all_chunks, state.seen_chunk_ids,
                                     reply)
       IN  state' = [state EXCEPT !.all_chunks = merged.all_chunks,
                                  !.seen_chunk_ids = merged.seen_chunk_ids]
    /\ first_sight' = FirstSightings(first_sight, reply)
    /\ resighted' = (resighted \/
                     \E i \in 1..Len(reply) : \E k \in first_sight :
                         k.chunk_id = reply[i].chunk_id /\ k # reply[i])
    /\ returned' = Append(returned, reply)
    /\ pc' = "analyze"
    /\ UNCHANGED << request, config, iteration, final_chunks, status, answer,
                    outcome, response, sent, analysed, search_calls,
                    synthesis, failed >>
    /\ UNCHANGED cache_vars

\* the search call raises (agent.py 618-620)
SearchFails(d) ==
    /\ pc = "search"
    /\ now' = now + d
    /\ chunks' = << >>
    /\ returned' = Append(returned, << >>)
    /\ failed' = failed \cup {iteration}
    /\ pc' = "analyze"
    /\ UNCHANGED << request, config, state, iteration, last_response,
                    final_chunks, status, answer, outcome, response, sent,
                    analysed, first_sight, resighted, search_calls,
                    synthesis >>
    /\ UNCHANGED cache_vars

\* the record if the statistics were taken over the accumulated evidence
RoundRecordOverEvidence(st, it, found, cfg, act) ==
    LET stats == CalculateChunkStats(st.all_chunks,
                                     cfg.relevance_score_threshold)
    IN  [st EXCEPT !.iterations =
            Append(@, IterationResult(it, st, st.all_chunks, stats, act))]

\* the round as it is recorded (agent.py 624-636): the statistics of the
\* chunks of this round and the action, appended to state.iterations
RoundRecord(st, it, found, cfg, act) ==
    LET stats == CalculateChunkStats(found, cfg.relevance_score_threshold)
    IN  [st EXCEPT !.iterations =
            Append(@, IterationResult(it, st, found, stats, act))]

\* the updates if every payload were applied whatever the kind of action
ApplyActionAnyKind(st, act, cfg) ==
    LET refined == IF /\ act.refined_query # NoText
                      /\ act.refined_query # ""
                      /\ cfg.enable_query_refinement
                   THEN [st EXCEPT !.current_query = act.refined_query]
                   ELSE st
        adjusted == IF /\ cfg.enable_retriever_adjustment
                       /\ act.search_adjustments # Null
                    THEN [refined EXCEPT !.search_config =
                            ApplySearchAdjustments(@, act.search_adjustments)]
                    ELSE refined
    IN  IF /\ cfg.enable_filter_adjustment
           /\ act.filter_adjustments # Null
        THEN [adjusted EXCEPT !.search_config =
                ApplyFilterAdjustments(@, act.filter_adjustments)]
        ELSE adjusted

\* the updates of the session state for the next round (agent.py 648-665)
ApplyAction(st, act, cfg) ==
    LET refined == IF /\ act.action_type = "refine_query"
                      /\ act.refined_query # NoText
                      /\ act.refined_query # ""
                      /\ cfg.enable_query_refinement
                   THEN [st EXCEPT !.current_query = act.refined_query]
                   ELSE st
        adjusted == IF /\ act.action_type \in {"expand_search", "narrow_search",
                                               "combined_action"}
                       /\ cfg.enable_retriever_adjustment
                       /\ act.search_adjustments # Null
                    THEN [refined EXCEPT !.search_config =
                            ApplySearchAdjustments(@, act.search_adjustments)]
                    ELSE refined
    IN  IF /\ act.action_type \in {"adjust_filters", "combined_action"}
           /\ cfg.enable_filter_adjustment
           /\ act.filter_adjustments # Null
        THEN [adjusted EXCEPT !.search_config =
                ApplyFilterAdjustments(@, act.filter_adjustments)]
        ELSE adjusted

\* the rest of the loop body once the action is known (agent.py 624-665)
EndRound(act) ==
    LET recorded == RoundRecord(state, iteration, chunks, config, act)
    IN  IF act.action_type \in {"stop_success", "stop_limit"}
        THEN /\ state' = recorded
             /\ pc' = "finish"
             /\ UNCHANGED iteration
        ELSE /\ state' = ApplyAction(recorded, act, config)
             /\ pc' = "loop_top"
             /\ iteration' = iteration + 1

\* _analyze_results without an LLM configuration
AnalyzeHeuristic ==
    /\ pc = "analyze"
    /\ config.llm_config = Null
    /\ EndRound(HeuristicAnalysis(Len(state.iterations), state.search_config,
                                  now, chunks, config))
    /\ analysed' = Append(analysed, [at |-> now, llm_reply |-> Null,
                                     evidence |-> state.all_chunks])
    /\ UNCHANGED << request, config, now, chunks, last_response, final_chunks,
                    status, answer, outcome, response, sent, returned,
                    first_sight, resighted, search_calls, synthesis, failed >>
    /\ UNCHANGED cache_vars

\* _analyze_results with an LLM configuration: the LLM call comes back
AnalyzeLLM(reply, d) ==
    /\ pc = "analyze"
    /\ config.llm_config # Null
    /\ now' = now + d
    /\ EndRound(AnalyzeWithLLM(Len(state.iterations), state.search_config,
                               now', chunks, config, reply))
    /\ analysed' = Append(analysed, [at |-> now', llm_reply |-> reply,
                                     evidence |-> state.all_chunks])
    /\ UNCHANGED << request, config, chunks, last_response, final_chunks,
                    status, answer, outcome, response, sent, returned,
                    first_sight, resighted, search_calls, synthesis, failed >>
    /\ UseLLMClient(config.llm_config)
    /\ UNCHANGED in_flight

\* the response of predict after the loop (agent.py 701-713)
FinalResponse(chunks_, st, ans) ==
    Respond(IF chunks_ # << >> THEN "done" ELSE "no_relevance_sources",
            st, ans, chunks_,
            IF last_response # Null THEN last_response.llm_usage ELSE Null)

\* the status if the final-answer flag were not consulted
DetermineStatusIgnoringFlag(best, cfg) ==
    IF best = << >> THEN "no_relevance_sources"
    ELSE IF cfg.llm_config # Null THEN "llm_rag"
    ELSE "no_llm"

\* the status of predict (agent.py 670-675)
DetermineStatus(best, cfg) ==
    IF best = << >> THEN "no_relevance_sources"
    ELSE IF cfg.generate_final_answer /\ cfg.llm_config # Null THEN "llm_rag"
    ELSE "no_llm"

\* the final-answer call goes to the LLM Service (agent.py 677, 515)
NeedsSynthesis(best, cfg) ==
    cfg.generate_final_answer /\ best # << >> /\ cfg.llm_config # Null

\* the answer if the count message were given whenever no LLM is called
DeterministicAnswerCountOnly(best, cfg) ==
    IF best # << >> THEN CountMessage(Len(best)) ELSE NotFoundMessage

\* the answer of predict when no LLM is called (agent.py 677-686, 515-516)
DeterministicAnswer(best, cfg) ==
    IF cfg.generate_final_answer /\ best # << >>
    THEN FormatSourcesForAnswer(best)
    ELSE IF best # << >> THEN CountMessage(Len(best))
    ELSE NotFoundMessage

\* the arguments of _generate_final_answer if the current query were passed
FinalAnswerCallWithCurrentQuery(st, best) ==
    [query |-> st.current_query, sources |-> best]

\* the arguments of _generate_final_answer (agent.py 678-682)
FinalAnswerCall(st, best) ==
    [query |-> st.original_query, sources |-> best]

\* _generate_final_answer if a failed call gave the count message
GenerateFinalAnswerCountOnFailure(call, raises) ==
    IF raises THEN CountMessage(Len(call.sources)) ELSE LLMContent

\* _generate_final_answer with an LLM configuration (agent.py 521-538): the
\* completion, or the formatted sources when the call raises
GenerateFinalAnswer(call, raises) ==
    IF raises THEN FormatSourcesForAnswer(call.sources) ELSE LLMContent

\* after the loop (agent.py 667-686): evidence selection, status, answer;
\* an LLM synthesis is a further call
Finish ==
    /\ pc = "finish"
    /\ LET best == GetBestChunks(state.all_chunks, TopK)
           st == DetermineStatus(best, config)
       IN  /\ final_chunks' = best
           /\ status' = st
           /\ IF NeedsSynthesis(best, config)
              THEN /\ pc' = "synthesize"
                   /\ synthesis' = [call |-> FinalAnswerCall(state, best),
                                    raised |-> FALSE]
                   /\ UNCHANGED << answer, outcome, response >>
              ELSE /\ answer' = DeterministicAnswer(best, config)
                   /\ FinalResponse(best, st, DeterministicAnswer(best, config))
                   /\ UNCHANGED synthesis
    /\ UNCHANGED << request, config, state, now, iteration, chunks,
                    last_response, sent, returned, analysed, first_sight,
                    resighted, search_calls, failed >>
    /\ UNCHANGED cache_vars

\* the final-answer call comes back or raises
Synthesize(raises, d) ==
    /\ pc = "synthesize"
    /\ now' = now + d
    /\ synthesis' = [synthesis EXCEPT !.raised = raises]
    /\ answer' = GenerateFinalAnswer(synthesis.call, raises)
    /\ FinalResponse(final_chunks, status, answer')
    /\ UNCHANGED << request, config, state, iteration, chunks, last_response,
                    final_chunks, status, sent, returned, analysed,
                    first_sight, resighted, search_calls, failed >>
    /\ UseLLMClient(config.llm_config)
    /\ UNCHANGED in_flight

Next ==
    \/ Predict
    \/ LoopTop
    \/ \E reply \in SearchReplies, d \in Delays : SearchReturns(reply, d)
    \/ \E d \in Delays : SearchFails(d)
    \/ AnalyzeHeuristic
    \/ \E reply \in LLMReplies : \E d \in LLMDelays(reply) :
          AnalyzeLLM(reply, d)
    \/ Finish
    \/ \E raises \in BOOLEAN, d \in Delays : Synthesize(raises, d)

Spec == Init /\ [][Next]_vars

(***************************************************************************)
(* Concurrent sessions on one Agent instance: the coroutines run on one    *)
(* event loop, so _call_llm runs without interruption from its entry to    *)
(* the await of client.chat_completion (agent.py 84-91).                   *)
(***************************************************************************)
\* session s, running with LLM configuration cfg, enters _call_llm: it takes
\* the client from _get_llm_client and awaits chat_completion on it
CallLLMBegins(s, cfg) ==
    /\ in_flight[s] = Null
    /\ llm_calls < MaxCalls
    /\ UseLLMClient(cfg)
    /\ in_flight' = [in_flight EXCEPT
                        ![s] = [llm_config |-> cfg, client |-> llm_client']]
    /\ UNCHANGED session_vars

\* the chat_completion awaited by session s comes back or raises
CallLLMEnds(s) ==
    /\ in_flight[s] # Null
    /\ in_flight' = [in_flight EXCEPT ![s] = Null]
    /\ UNCHANGED << session_vars, llm_client, llm_config, llm_calls >>

CacheInit ==
    /\ Init
    /\ request = << Message("user", "q") >>
    /\ config = LockedConfig

CacheNext ==
    \/ \E s \in Sessions, cfg \in SessionLLMConfigs : CallLLMBegins(s, cfg)
    \/ \E s \in Sessions : CallLLMEnds(s)

CacheSpec == CacheInit /\ [][CacheNext]_vars

(***************************************************************************)
(* Properties.                                                             *)
(***************************************************************************)
Entered == state # Null
Iterations == state.iterations
Last(seq) == seq[Len(seq)]

\* C1: accumulated evidence holds at most one chunk per identifier, the set
\* of seen identifiers is the set of identifiers in accumulated evidence, and
\* the entry of an identifier is the chunk of its first sighting, whatever
\* scores it came back with later.
DedupInvariant ==
    Entered =>
        LET all == state.all_chunks
        IN  /\ \A i, j \in 1..Len(all) :
                  all[i].chunk_id = all[j].chunk_id => i = j
            /\ state.seen_chunk_ids = {all[i].chunk_id : i \in 1..Len(all)}
            /\ \A i \in 1..Len(all) : all[i] \in first_sight
            /\ \A c \in first_sight : c.chunk_id \in state.seen_chunk_ids

\* an identifier of an earlier round came back with other scores
DedupWitness ==
    /\ Entered
    /\ resighted
    /\ Len(returned) >= 2
    /\ pc = "done"

\* C2: a heuristic-only session runs at most max_iterations rounds, starts
\* no round once the elapsed time has reached max_time_seconds, and ends by
\* returning a response.
HeuristicSessionReturns ==
    (Entered /\ config.llm_config = Null) =>
        /\ Len(Iterations) <= config.max_iterations
        /\ search_calls <= config.max_iterations
        /\ pc = "search" => now < config.max_time_seconds
        /\ pc = "done" => outcome = "returned"

\* effective score of the data model: the rerank score if present, else the
\* retrieval score, else zero
EffectiveScore(c) ==
    IF c.reranker_relevance_score # Absent THEN c.reranker_relevance_score
    ELSE IF c.retrieval_relevance_score # Absent
         THEN c.retrieval_relevance_score
         ELSE 0

DistinctIds(seq) ==
    \A i, j \in 1..Len(seq) : seq[i].chunk_id = seq[j].chunk_id => i = j

\* remaining time read by the analyzer of round k
RemainingAt(k) == config.max_time_seconds - analysed[k].at

ScenarioConfig ==
    /\ config.max_iterations = 3
    /\ config.max_time_seconds = 120
    /\ config.confidence_threshold = 7
    /\ config.min_relevant_chunks = 3
    /\ config.relevance_score_threshold = 5
    /\ config.llm_config = Null
    /\ config.enable_retriever_adjustment
    /\ config.initial_search_config = Null

\* round 1 came back empty, round 2 with six chunks scored 0.9 ... 0.2
ScenarioRounds ==
    /\ Entered
    /\ Len(Iterations) >= 2
    /\ returned[1] = << >>
    /\ Len(returned[2]) = 6
    /\ DistinctIds(returned[2])
    /\ [i \in 1..6 |-> EffectiveScore(returned[2][i])] = << 9, 8, 6, 4, 3, 2 >>

ScenarioOutcome ==
    /\ Iterations[1].action.action_type = "expand_search"
    /\ Iterations[2].search_config_snapshot.retriever = RetrieverConfig(20, 1, 5)
    /\ Iterations[2].action.action_type = "stop_success"
    /\ Len(Iterations) = 2
    /\ search_calls = 2
    /\ pc \in {"finish", "done"}
    /\ pc = "done" =>
          /\ outcome = "returned"
          /\ response.status = "no_llm"
          /\ response.sources = returned[2]

\* C3 as stated: in the reference configuration without LLM, an empty round 1
\* followed by the six chunks in round 2 gives expand_search with the
\* configuration 20 / 0.1 / 0.5 for round 2, stop_success in round 2, two
\* recorded rounds, status no_llm and the six chunks in descending order.
EndToEndScenario ==
    (ScenarioConfig /\ ScenarioRounds) => ScenarioOutcome

\* C3 amended: the same, provided at least 5 seconds of the budget remain
\* when round 2 is analysed.
EndToEndScenarioInTime ==
    (ScenarioConfig /\ ScenarioRounds /\ RemainingAt(2) >= 5) => ScenarioOutcome

EndToEndScenarioWitness ==
    /\ ScenarioConfig
    /\ ScenarioRounds
    /\ RemainingAt(2) >= 5
    /\ pc = "done"

\* the reply of the LLM that makes _analyze_with_llm fall back
LLMFailed(reply) ==
    IF reply.raises THEN TRUE
    ELSE IF ~reply.valid_json THEN TRUE
    ELSE "error" \in DOMAIN reply.json

\* round k was decided by the heuristic strategy
HeuristicRound(k) ==
    analysed[k].llm_reply = Null \/ LLMFailed(analysed[k].llm_reply)

AtBoundary(k) ==
    /\ HeuristicRound(k)
    /\ Iterations[k].relevant_chunks_count = config.min_relevant_chunks
    /\ RatEq(Iterations[k].avg_relevance_score, config.confidence_threshold)

NoLimitReached(k) ==
    /\ Iterations[k].iteration < config.max_iterations
    /\ RemainingAt(k) >= 5

\* C4 as stated: a round analysed by the heuristic strategy with
\* relevant_count = min_relevant_chunks and avg_score = confidence_threshold
\* gets stop_success.
StopSuccessBoundary ==
    Entered =>
        \A k \in 1..Len(Iterations) :
            AtBoundary(k) => Iterations[k].action.action_type = "stop_success"

\* C4 amended: the same for a round in which no limit is reached (iteration
\* below max_iterations and at least 5 seconds remaining).
StopSuccessBoundaryBelowLimit ==
    Entered =>
        \A k \in 1..Len(Iterations) :
            (AtBoundary(k) /\ NoLimitReached(k)) =>
                Iterations[k].action.action_type = "stop_success"

\* a boundary round below the limits, with a confidence threshold under 0.5
StopSuccessBoundaryWitness ==
    /\ Entered
    /\ config.confidence_threshold = 4
    /\ \E k \in 1..Len(Iterations) :
          /\ AtBoundary(k)
          /\ NoLimitReached(k)
          /\ Iterations[k].action.action_type = "stop_success"

\* C5: in a heuristic-only session with retriever adjustment permitted, once
\* an expand_search action has been applied the retrieval size is at most 30
\* and the retrieval threshold at least 0.1.
AdjustmentBounds ==
    (/\ Entered
     /\ config.llm_config = Null
     /\ config.enable_retriever_adjustment
     /\ Len(Iterations) >= 1
     /\ Last(Iterations).action.action_type = "expand_search") =>
        /\ state.search_config.retriever # Null
        /\ state.search_config.retriever.size <= 30
        /\ state.search_config.retriever.threshold >= 1

\* two consecutive relative expansions, the second at the cap and the floor
AdjustmentBoundsWitness ==
    /\ Entered
    /\ config.llm_config = Null
    /\ config.enable_retriever_adjustment
    /\ Len(Iterations) >= 2
    /\ Iterations[Len(Iterations) - 1].action.reasoning = "expand"
    /\ Last(Iterations).action.reasoning = "expand"
    /\ Last(Iterations).search_config_snapshot.retriever.size = 30
    /\ state.search_config.retriever.size = 30
    /\ state.search_config.retriever.threshold = 1

\* C6: when the LLM analysis call raises, returns text that is not JSON, or
\* returns an object with an "error" field, the round is recorded with
\* exactly the action of the heuristic strategy for that round's chunks and
\* session state.
FallbackCorrectness ==
    Entered =>
        /\ Len(analysed) = Len(Iterations)
        /\ \A k \in 1..Len(analysed) :
              (analysed[k].llm_reply # Null /\ LLMFailed(analysed[k].llm_reply))
              => Iterations[k].action =
                    HeuristicAnalysis(k - 1,
                                      Iterations[k].search_config_snapshot,
                                      analysed[k].at, returned[k], config)

\* each kind of failure was answered by a heuristic action that continues
FallbackWitness ==
    /\ Entered
    /\ Len(Iterations) >= 1
    /\ analysed[1].llm_reply # Null
    /\ ~analysed[1].llm_reply.raises
    /\ LLMFailed(analysed[1].llm_reply)
    /\ Iterations[1].action.action_type = "expand_search"

\* C7: in a round analysed by the heuristic strategy with no limit reached,
\* at least one chunk and fewer relevant chunks than min_relevant_chunks,
\* the action is refine_query exactly when count >= 5 and avg_score < 0.3,
\* and expand_search otherwise.
RefineVersusExpand ==
    Entered =>
        \A k \in 1..Len(Iterations) :
            (/\ HeuristicRound(k)
             /\ NoLimitReached(k)
             /\ Iterations[k].chunks_found >= 1
             /\ Iterations[k].relevant_chunks_count < config.min_relevant_chunks)
            => Iterations[k].action.action_type =
                  IF /\ Iterations[k].chunks_found >= 5
                     /\ RatLt(Iterations[k].avg_relevance_score, 3)
                  THEN "refine_query" ELSE "expand_search"

\* one session with a refine_query round of exactly five chunks and an
\* expand_search round of fewer
RefineVersusExpandWitness ==
    /\ Entered
    /\ \E j, k \in 1..Len(Iterations) :
          /\ HeuristicRound(j) /\ NoLimitReached(j)
          /\ Iterations[j].chunks_found = 5
          /\ Iterations[j].action.action_type = "refine_query"
          /\ HeuristicRound(k) /\ NoLimitReached(k)
          /\ Iterations[k].chunks_found \in 1..4
          /\ RatLt(Iterations[k].avg_relevance_score, 3)
          /\ Iterations[k].action.action_type = "expand_search"

\* the request has no user message, or its last user message is empty
NoUserQuery ==
    LET users == {i \in 1..Len(request) : request[i].role = "user"}
    IN  \/ users = {}
        \/ \E i \in users : /\ \A j \in users : j <= i
                            /\ request[i].content = ""

\* C8: without a user query predict returns at once a response with status
\* no_relevance_sources and no sources, having searched, analysed and
\* recorded nothing.
EmptyQueryResponse ==
    (NoUserQuery /\ pc # "idle") =>
        /\ pc = "done"
        /\ outcome = "returned"
        /\ response.status = "no_relevance_sources"
        /\ response.sources = << >>
        /\ search_calls = 0
        /\ analysed = << >>
        /\ ~Entered

\* C9: once the status of a session that entered the loop is determined, it
\* is no_relevance_sources iff the accumulated evidence is empty, llm_rag iff
\* the evidence is non-empty, the final-answer flag is set and an LLM
\* configuration is present, and no_llm otherwise; a returned response
\* carries that status.
FinalStatus ==
    (Entered /\ pc \in {"synthesize", "done"}) =>
        /\ status = "no_relevance_sources" <=> state.all_chunks = << >>
        /\ status = "llm_rag" <=>
              (/\ state.all_chunks # << >>
               /\ config.generate_final_answer
               /\ config.llm_config # Null)
        /\ status \in {"no_relevance_sources", "llm_rag", "no_llm"}
        /\ outcome = "returned" => response.status = status

\* an LLM is configured but the flag is not set: evidence gives no_llm
FinalStatusWitness ==
    /\ Entered
    /\ pc = "done"
    /\ outcome = "returned"
    /\ config.llm_config # Null
    /\ ~config.generate_final_answer
    /\ response.status = "no_llm"

\* position of all[i] in the stable descending order by effective score
RankOf(all, i) ==
    1 + Cardinality({j \in 1..Len(all) :
                        \/ EffectiveScore(all[j]) > EffectiveScore(all[i])
                        \/ /\ EffectiveScore(all[j]) = EffectiveScore(all[i])
                           /\ j < i})

\* C10: the selected sources are the first min(10, n) accumulated chunks in
\* descending order of effective score, equal scores in order of discovery.
EvidenceSelection ==
    (Entered /\ pc \in {"synthesize", "done"}) =>
        LET all == state.all_chunks
        IN  /\ Len(final_chunks) = Min(10, Len(all))
            /\ \A i \in 1..Len(all) :
                  RankOf(all, i) <= 10 => final_chunks[RankOf(all, i)] = all[i]

\* C11 as stated: whenever the status is no_llm the answer is the count
\* message "found N relevant fragments", N the number of sources.
CountMessageAnswer ==
    (Entered /\ pc = "done" /\ status = "no_llm") =>
        /\ outcome = "returned"
        /\ response.answer = CountMessage(Len(response.sources))

\* C11 amended: whenever the status is no_llm, the answer is the count
\* message if the final-answer flag is not set, and the formatted listing of
\* the sources if the flag is set (and no LLM configuration is present).
NonLLMAnswer ==
    (Entered /\ pc = "done" /\ status = "no_llm") =>
        /\ outcome = "returned"
        /\ response.status = "no_llm"
        /\ response.answer =
              IF config.generate_final_answer
              THEN FormatSourcesForAnswer(response.sources)
              ELSE CountMessage(Len(response.sources))

\* the flag is set without an LLM configuration and six sources are listed
NonLLMAnswerWitness ==
    /\ Entered
    /\ pc = "done"
    /\ status = "no_llm"
    /\ config.generate_final_answer
    /\ config.llm_config = Null
    /\ Len(response.sources) = 6
    /\ response.answer.kind = "formatted_sources"

\* the last recorded round left the loop going
Continues(k) ==
    Iterations[k].action.action_type \notin {"stop_success", "stop_limit"}

\* evidence the session had accumulated when round k began
EvidenceBefore(k) == IF k = 1 THEN << >> ELSE analysed[k - 1].evidence

\* C12: a round whose search call raised is recorded with zero chunks and
\* leaves the accumulated evidence as it was; unless its action is a stop
\* action the loop goes on while the limits allow; and a session in which
\* every search call raised returns a response with status
\* no_relevance_sources.
SearchFailureNonFatal ==
    Entered =>
        /\ \A k \in failed :
              k <= Len(Iterations) =>
                  /\ Iterations[k].chunks_found = 0
                  /\ Iterations[k].relevant_chunks_count = 0
                  /\ analysed[k].evidence = EvidenceBefore(k)
                  /\ (Continues(k) /\ k = Len(Iterations)
                        /\ pc \in {"finish", "synthesize", "done"})
                     => (k = config.max_iterations
                         \/ now >= config.max_time_seconds)
        /\ (pc = "done" /\ Len(Iterations) >= 1
              /\ failed = 1..Len(Iterations))
           => /\ outcome = "returned"
              /\ response.status = "no_relevance_sources"

\* C13: a session that entered the loop and ends with empty accumulated
\* evidence returns a response with status no_relevance_sources, no sources
\* and the not-found message.
ZeroEvidenceResponse ==
    (Entered /\ pc = "done" /\ state.all_chunks = << >>) =>
        /\ outcome = "returned"
        /\ response.status = "no_relevance_sources"
        /\ response.sources = << >>
        /\ response.answer = NotFoundMessage

\* q is the content of the last user message of the request
IsLastUserMessage(q) ==
    \E i \in 1..Len(request) :
        /\ request[i].role = "user"
        /\ request[i].content = q
        /\ \A j \in (i + 1)..Len(request) : request[j].role # "user"

\* C14: in every state of a session the original query is the last user
\* message of the request, whatever the current query has become, and the
\* final-answer call is made with the original query.
OriginalQueryImmutable ==
    Entered =>
        /\ IsLastUserMessage(state.original_query)
        /\ synthesis # Null => IsLastUserMessage(synthesis.call.query)

\* the query was refined and the final answer was then synthesized
OriginalQueryWitness ==
    /\ Entered
    /\ pc = "done"
    /\ state.current_query # state.original_query
    /\ synthesis # Null
    /\ synthesis.call.query = "q"
    /\ Iterations[1].action.action_type = "refine_query"

\* C15: when the final-answer call of an llm_rag session raises, the session
\* returns a response with status llm_rag, the selected sources and the
\* formatted listing of those sources as the answer.
SynthesisFailureFallback ==
    (Entered /\ pc = "done" /\ synthesis # Null /\ synthesis.raised) =>
        /\ outcome = "returned"
        /\ response.status = "llm_rag"
        /\ response.sources = final_chunks
        /\ response.sources = GetBestChunks(state.all_chunks, TopK)
        /\ response.answer = FormatSourcesForAnswer(response.sources)

\* the call raised after a long wait, with several sources selected
SynthesisFailureWitness ==
    /\ Entered
    /\ pc = "done"
    /\ status = "llm_rag"
    /\ synthesis # Null
    /\ synthesis.raised
    /\ Len(final_chunks) >= 3
    /\ outcome = "returned"

\* the heuristic strategy decided round k at a limit
AtLimit(k) ==
    /\ HeuristicRound(k)
    /\ \/ Iterations[k].iteration >= config.max_iterations
       \/ RemainingAt(k) < 5

\* C16: a round the heuristic strategy decides with the iteration number at
\* max_iterations or less than 5 seconds remaining gets stop_limit, whatever
\* its statistics; in a heuristic-only session the record with index
\* max_iterations, if there is one, carries stop_limit.
RuleOnePriority ==
    Entered =>
        /\ \A k \in 1..Len(Iterations) :
              AtLimit(k) => Iterations[k].action.action_type = "stop_limit"
        /\ (config.llm_config = Null
              /\ Len(Iterations) >= config.max_iterations)
           => Iterations[config.max_iterations].action.action_type
                 = "stop_limit"

\* a round at the limit whose statistics meet the stop_success test
RuleOnePriorityWitness ==
    /\ Entered
    /\ config.llm_config = Null
    /\ Len(Iterations) = config.max_iterations
    /\ AtLimit(Len(Iterations))
    /\ Last(Iterations).relevant_chunks_count >= config.min_relevant_chunks
    /\ RatGeq(Last(Iterations).avg_relevance_score,
              config.confidence_threshold)
    /\ Last(Iterations).action.action_type = "stop_limit"

\* round k took the expand_search branch of the heuristic strategy for a
\* non-empty round with too few relevant chunks
RelativelyExpanded(k) ==
    /\ HeuristicRound(k)
    /\ NoLimitReached(k)
    /\ Iterations[k].chunks_found >= 1
    /\ Iterations[k].relevant_chunks_count < config.min_relevant_chunks
    /\ Iterations[k].action.action_type = "expand_search"

\* C17: the adjustment of such a round is retrieval size min(30, s + 10) and
\* threshold max(0.1, t - 0.1), s and t being the retrieval size and
\* threshold of the search configuration the round ran with.
RelativeExpansion ==
    Entered =>
        \A k \in 1..Len(Iterations) :
            RelativelyExpanded(k) =>
                LET retriever == Iterations[k].search_config_snapshot.retriever
                    adj == Iterations[k].action.search_adjustments
                IN  /\ adj.retriever_size = Min(30, retriever.size + 10)
                    /\ adj.retriever_threshold = Max(1, retriever.threshold - 1)

RECURSIVE SumEffective(_)
SumEffective(seq) ==
    IF seq = << >> THEN 0
    ELSE EffectiveScore(Head(seq)) + SumEffective(Tail(seq))

\* C18: the recorded statistics of every round (relevant count, average and
\* maximum) are those of the effective scores of the chunks of the round, and
\* the selected sources are in descending order of effective score.
EffectiveScoreUsed ==
    Entered =>
        /\ \A k \in 1..Len(Iterations) :
              LET found == returned[k]
                  r == Iterations[k]
              IN  found # << >> =>
                    /\ r.relevant_chunks_count =
                          Cardinality({i \in 1..Len(found) :
                              EffectiveScore(found[i]) >=
                                  config.relevance_score_threshold})
                    /\ r.avg_relevance_score.num * Len(found) =
                          SumEffective(found) * r.avg_relevance_score.den
                    /\ \A i \in 1..Len(found) :
                          EffectiveScore(found[i]) <= r.max_relevance_score
                    /\ \E i \in 1..Len(found) :
                          EffectiveScore(found[i]) = r.max_relevance_score
        /\ pc \in {"synthesize", "done"} =>
              \A i, j \in 1..Len(final_chunks) :
                  i < j => EffectiveScore(final_chunks[i])
                              >= EffectiveScore(final_chunks[j])

\* query and search configuration the session had after round k
QueryAfter(k) ==
    IF k < Len(Iterations) THEN Iterations[k + 1].query_used
    ELSE state.current_query
ConfigAfter(k) ==
    IF k < Len(Iterations) THEN Iterations[k + 1].search_config_snapshot
    ELSE state.search_config

\* C19: after a round the current query differs only if the action is
\* refine_query with a non-empty refined query and refinement is permitted;
\* the retriever / reranker sections differ only if the action is
\* expand_search, narrow_search or combined_action with search adjustments
\* and retriever adjustment is permitted; the filter tree differs only if
\* the action is adjust_filters or combined_action with filter adjustments
\* and filter adjustment is permitted.
StateUpdateGuards ==
    Entered =>
        \A k \in 1..Len(Iterations) :
            LET act == Iterations[k].action
                before == Iterations[k].search_config_snapshot
                after == ConfigAfter(k)
            IN  /\ QueryAfter(k) # Iterations[k].query_used =>
                      /\ act.action_type = "refine_query"
                      /\ act.refined_query # NoText
                      /\ act.refined_query # ""
                      /\ config.enable_query_refinement
                      /\ QueryAfter(k) = act.refined_query
                /\ (\/ after.retriever # before.retriever
                    \/ after.reranker # before.reranker) =>
                      /\ act.action_type \in {"expand_search", "narrow_search",
                                               "combined_action"}
                      /\ config.enable_retriever_adjustment
                      /\ act.search_adjustments # Null
                /\ after.filtering # before.filtering =>
                      /\ act.action_type \in {"adjust_filters",
                                               "combined_action"}
                      /\ config.enable_filter_adjustment
                      /\ act.filter_adjustments # Null

\* an adjust_filters action that also carried search adjustments changed the
\* filter tree only, and a later combined_action that also carried a refined
\* query changed the configuration only
StateUpdateGuardsWitness ==
    /\ Entered
    /\ Len(Iterations) = 2
    /\ Iterations[1].action.action_type = "adjust_filters"
    /\ Iterations[1].action.search_adjustments # Null
    /\ ConfigAfter(1).filtering # Iterations[1].search_config_snapshot.filtering
    /\ ConfigAfter(1).retriever = Iterations[1].search_config_snapshot.retriever
    /\ Iterations[2].action.action_type = "combined_action"
    /\ Iterations[2].action.refined_query = "q3"
    /\ QueryAfter(2) = Iterations[2].query_used
    /\ ConfigAfter(2).retriever # Iterations[2].search_config_snapshot.retriever
    /\ ConfigAfter(2).filtering # Iterations[2].search_config_snapshot.filtering

\* C20: every round is analysed and recorded with the statistics of exactly
\* the chunks its search call returned, chunks of earlier rounds included,
\* and with zero statistics when it returned none.
PerRoundAnalysis ==
    Entered =>
        /\ Len(returned) >= Len(Iterations)
        /\ \A k \in 1..Len(Iterations) :
              LET found == returned[k]
                  stats == CalculateChunkStats(found,
                               config.relevance_score_threshold)
                  r == Iterations[k]
              IN  /\ r.chunks_found = Len(found)
                  /\ r.relevant_chunks_count = stats.relevant_count
                  /\ r.avg_relevance_score = stats.avg_score
                  /\ r.max_relevance_score = stats.max_score
                  /\ found = << >> =>
                        /\ r.chunks_found = 0
                        /\ r.relevant_chunks_count = 0
                        /\ r.avg_relevance_score.num = 0
                        /\ r.max_relevance_score = 0
                  /\ HeuristicRound(k) =>
                        r.action = HeuristicAnalysis(k - 1,
                                       r.search_config_snapshot,
                                       analysed[k].at, found, config)

\* a later round brought back only chunks that were already accumulated,
\* fewer than the evidence holds
PerRoundAnalysisWitness ==
    /\ Entered
    /\ \E k \in 2..Len(Iterations) :
          /\ returned[k] # << >>
          /\ \A i \in 1..Len(returned[k]) :
                \E j \in 1..Len(EvidenceBefore(k)) :
                    EvidenceBefore(k)[j].chunk_id = returned[k][i].chunk_id
          /\ Iterations[k].chunks_found = Len(returned[k])
          /\ Iterations[k].chunks_found < Len(analysed[k].evidence)
          /\ Iterations[k].relevant_chunks_count >= 1

\* the search adjustment of round k was applied to the configuration
SearchAdjusted(k) ==
    /\ Iterations[k].action.action_type \in
          {"expand_search", "narrow_search", "combined_action"}
    /\ config.enable_retriever_adjustment
    /\ Iterations[k].action.search_adjustments # Null

\* the filter adjustment of round k was applied to the configuration
FilterAdjusted(k) ==
    /\ Iterations[k].action.action_type \in {"adjust_filters", "combined_action"}
    /\ config.enable_filter_adjustment
    /\ Iterations[k].action.filter_adjustments # Null

\* C21: an applied search adjustment overwrites exactly the fields whose
\* delta is given and leaves the others as they were; an absent rerank
\* section is created, enabled, only if the adjustment carries a rerank
\* delta, and stays absent otherwise.
SearchAdjustmentFrame ==
    Entered =>
        \A k \in 1..Len(Iterations) :
            SearchAdjusted(k) =>
                LET adj == Iterations[k].action.search_adjustments
                    before == Iterations[k].search_config_snapshot
                    after == ConfigAfter(k)
                    rerank_delta == \/ adj.reranker_top_k # Absent
                                    \/ adj.reranker_threshold # Absent
                IN  /\ before.retriever # Null =>
                          after.retriever =
                              RetrieverConfig(
                                  Override(before.retriever.size,
                                           adj.retriever_size),
                                  Override(before.retriever.threshold,
                                           adj.retriever_threshold),
                                  Override(before.retriever.bm25_weight,
                                           adj.bm25_weight))
                    /\ before.reranker # Null =>
                          after.reranker =
                              RerankerConfig(
                                  before.reranker.enabled,
                                  Override(before.reranker.top_k,
                                           adj.reranker_top_k),
                                  Override(before.reranker.threshold,
                                           adj.reranker_threshold))
                    /\ (before.reranker = Null /\ rerank_delta) =>
                          (after.reranker # Null /\ after.reranker.enabled)
                    /\ (before.reranker = Null /\ ~rerank_delta) =>
                          after.reranker = Null
                    /\ ~FilterAdjusted(k) => after.filtering = before.filtering

\* number of conditions a filter adjustment produces
ConditionCount(adj) ==
    (IF adj.languages # << >> THEN 1 ELSE 0)
        + Len(adj.include_filepaths) + Len(adj.exclude_filepaths)

\* C22: after a filter adjustment is applied the filter configuration is the
\* one built from that adjustment alone: enabled iff the adjustment gives at
\* least one condition, one condition unwrapped, several under one AND-group,
\* nothing of the earlier tree.
FilterRebuild ==
    Entered =>
        \A k \in 1..Len(Iterations) :
            FilterAdjusted(k) =>
                LET adj == Iterations[k].action.filter_adjustments
                    after == ConfigAfter(k).filtering
                    alone == ApplyFilterAdjustments(
                                 SearchConfig(Null, Null, Null), adj).filtering
                    n == ConditionCount(adj)
                IN  /\ n = 0 => (after = Null \/ ~after.enabled)
                    /\ n >= 1 => (after # Null /\ after.enabled
                                    /\ after = alone)
                    /\ n = 1 => "values" \in DOMAIN after.filter
                                    <=> adj.exclude_filepaths # << >>
                    /\ n > 1 => /\ after.filter.operator = "and"
                                /\ Len(after.filter.values) = n

\* C23: after a filter adjustment with exclude patterns is applied, the
\* filter admits no chunk whose filepath matches an excluded pattern, and
\* the node of an excluded pattern differs from the include node of the
\* same pattern.
ExcludeNegated ==
    Entered =>
        \A k \in 1..Len(Iterations) :
            (FilterAdjusted(k) /\
             Iterations[k].action.filter_adjustments.exclude_filepaths # << >>)
            =>
                LET adj == Iterations[k].action.filter_adjustments
                    after == ConfigAfter(k).filtering
                IN  /\ after # Null
                    /\ after.enabled
                    /\ \A i \in 1..Len(adj.exclude_filepaths) :
                          /\ after.filter #
                                [name |-> "filepath", operator |-> "wildcard",
                                 value |-> adj.exclude_filepaths[i]]
                          /\ \A f \in FilePaths, l \in Languages :
                                Matches(adj.exclude_filepaths[i], f) =>
                                    ~Admits(after.filter,
                                            [filepath |-> f, language |-> l])

\* the numbers of a search configuration are within their ranges
WithinRanges(search_config) ==
    /\ search_config.retriever # Null =>
          /\ search_config.retriever.size >= 0
          /\ search_config.retriever.threshold >= 0
          /\ search_config.retriever.threshold <= 10
    /\ search_config.reranker # Null =>
          /\ search_config.reranker.top_k >= 0
          /\ search_config.reranker.threshold >= 0
          /\ search_config.reranker.threshold <= 10

\* C24: in every state of a session the retrieval size and threshold and the
\* rerank top-k and threshold are non-negative and the thresholds are at
\* most 1, whatever the analyzer supplied.
SearchConfigBounds ==
    Entered => WithinRanges(state.search_config)

\* C25: when the elapsed time at the top of a round has reached
\* max_time_seconds, the loop is left for evidence selection: no search call
\* is issued, no analysis is made, no record is appended and the state of the
\* session stays as it stood.
LoopTopTimeCheck ==
    [][(pc = "loop_top" /\ now >= config.max_time_seconds) =>
          /\ pc' = "finish"
          /\ UNCHANGED << state, search_calls, sent, returned, analysed,
                          failed, iteration, now >>]_vars

\* a session left the loop at the top of a round that the iteration limit
\* allowed and the previous action asked for, exactly when the time was up
LoopTopTimeCheckWitness ==
    /\ pc = "finish"
    /\ Entered
    /\ Len(Iterations) >= 1
    /\ Continues(Len(Iterations))
    /\ iteration <= config.max_iterations
    /\ now = config.max_time_seconds
    /\ search_calls = Len(Iterations)

\* C26: the history has one record per executed round, the k-th record has
\* index k, the record of the latest round has the query and the
\* configuration that were sent to the search of that round, and a step of
\* the session only appends to the history: the records it had stay as they
\* were.
IterationHistory ==
    /\ [](Entered =>
            /\ Len(Iterations) \in {search_calls, search_calls - 1}
            /\ pc \notin {"search", "analyze"} => Len(Iterations) = search_calls
            /\ \A k \in 1..Len(Iterations) : Iterations[k].iteration = k
            /\ (Len(Iterations) = search_calls /\ search_calls >= 1) =>
                  /\ Last(Iterations).search_config_snapshot =
                         sent.search_config
                  /\ Last(Iterations).query_used = sent.query)
    /\ [][(Entered /\ state' # Null) =>
            /\ Len(state'.iterations) \in
                   {Len(Iterations), Len(Iterations) + 1}
            /\ Len(state'.iterations) = Len(Iterations) + 1 <=>
                   (pc = "analyze")
            /\ \A k \in 1..Len(Iterations) :
                   state'.iterations[k] = Iterations[k]]_vars

\* a finished session whose configuration was adjusted after round 1: the
\* records of rounds 1 and 2 carry different snapshots, neither the default
IterationHistoryWitness ==
    /\ pc = "done"
    /\ Entered
    /\ Len(Iterations) >= 2
    /\ Iterations[1].search_config_snapshot #
          Iterations[2].search_config_snapshot
    /\ Iterations[1].search_config_snapshot # GetDefaultSearchConfig
    /\ Iterations[2].search_config_snapshot # GetDefaultSearchConfig
    /\ ConfigAfter(2) # Iterations[2].search_config_snapshot

\* C28: a round whose LLM reply is a JSON object without an "error" field
\* and without an action kind is recorded with the action of the heuristic
\* strategy for that round.
SchemaViolationFallback ==
    Entered =>
        \A k \in 1..Len(Iterations) :
            (/\ analysed[k].llm_reply # Null
             /\ ~LLMFailed(analysed[k].llm_reply)
             /\ "action_type" \notin DOMAIN analysed[k].llm_reply.json)
            => Iterations[k].action =
                  HeuristicAnalysis(k - 1, Iterations[k].search_config_snapshot,
                                    analysed[k].at, returned[k], config)

\* every round so far was decided by the heuristic strategy
HeuristicOnly ==
    \A k \in 1..Len(analysed) : HeuristicRound(k)

\* C29: while every round was decided by the heuristic strategy the current
\* query is the original query; a heuristic refine_query round leaves the
\* query and the search configuration as they were, and the search call of
\* the next round is given the query and the configuration of that round.
HeuristicRefineIsNoOp ==
    (Entered /\ HeuristicOnly) =>
        /\ state.current_query = state.original_query
        /\ \A k \in 1..Len(Iterations) :
              Iterations[k].action.action_type = "refine_query" =>
                  /\ Iterations[k].action.refined_query = NoText
                  /\ QueryAfter(k) = Iterations[k].query_used
                  /\ ConfigAfter(k) = Iterations[k].search_config_snapshot
                  /\ (k = Len(Iterations) /\ search_calls = k + 1) =>
                        sent = [query |-> Iterations[k].query_used,
                                search_config |->
                                    Iterations[k].search_config_snapshot]

\* a session without LLM configuration whose first round ended with
\* refine_query and whose second search call has been issued
HeuristicRefineWitness ==
    /\ Entered
    /\ config.llm_config = Null
    /\ Len(Iterations) = 1
    /\ Iterations[1].action.action_type = "refine_query"
    /\ search_calls = 2
    /\ pc = "search"

\* C30: a session issues at most max_iterations search calls and records at
\* most max_iterations rounds, and a session whose last permitted round ended
\* with an action that is not a stop action returns a response.
IterationCeiling ==
    Entered =>
        /\ search_calls <= config.max_iterations
        /\ Len(Iterations) <= config.max_iterations
        /\ (/\ pc = "done"
            /\ Len(Iterations) = config.max_iterations
            /\ Continues(Len(Iterations)))
           => outcome = "returned"

\* C27: in every interleaving of the LLM calls of the sessions, a call in
\* flight was sent through a client constructed from the configuration
\* passed with the call; the cached client is present exactly when the
\* cached configuration is, and was constructed from it; and a step replaces
\* the cached client only for a call whose configuration differs from the
\* cached one, which then uses the new client.
LLMClientCache ==
    /\ [](/\ \A s \in Sessions :
                in_flight[s] # Null =>
                    in_flight[s].client.llm_config = in_flight[s].llm_config
          /\ (llm_client = Null) <=> (llm_config = Null)
          /\ llm_client # Null => llm_client.llm_config = llm_config)
    /\ [][llm_client' # llm_client =>
            \E s \in Sessions :
                /\ in_flight[s] = Null
                /\ in_flight'[s] # Null
                /\ in_flight'[s].llm_config # llm_config
                /\ in_flight'[s].client = llm_client'
                /\ llm_config' = in_flight'[s].llm_config]_vars

\* two calls with different configurations are in flight at once: the call
\* of session 1 holds a client that has been replaced since, and the call of
\* session 2, the latest, reused the cached client that an earlier call with
\* its configuration had constructed
LLMClientCacheWitness ==
    /\ in_flight[1] # Null
    /\ in_flight[2] # Null
    /\ in_flight[1].llm_config # in_flight[2].llm_config
    /\ in_flight[2].client = llm_client
    /\ in_flight[1].client.serial < llm_client.serial
    /\ llm_client.serial < llm_calls

====
